---- MODULE Spec2Model ----
(***************************************************************************)
(* ThreadSafeQueue<T> (src/ThreadSafeQueue.h): a std::deque<T> that can    *)
(* only be reached through member functions taking a ReadLock              *)
(* (std::shared_lock) or a WriteLock (std::unique_lock) on the queue's     *)
(* std::shared_mutex.  Every member function starts with                   *)
(* ASSERT(is_valid_lock(lock)), and ASSERT is <cassert>'s assert unless    *)
(* the includer defines it.                                                *)
(*                                                                         *)
(* The model has two queues, a few threads, and per thread a few lock      *)
(* objects.  One step is one call of a member function of the queue or of  *)
(* a lock object.  acquire_*_lock is split into the call and the return,   *)
(* so that a thread waiting inside the call is a state.                    *)
(*                                                                         *)
(* Spec: arbitrary callers of queue A.  SpecLoop: the README's consumer    *)
(* loop.  SpecNested: threads that ask for locks while they hold one.      *)
(* SpecRules: threads that follow the README's rules, with fairness.       *)
(***************************************************************************)
EXTENDS Naturals, Sequences, FiniteSets, TLC

\* ---------------------------------------------------------------- bounds
\* lock objects a thread can have in scope at once
MaxTokens == 2
\* pushes in one run
MaxPush == 2

Threads == {1, 2, 3}
Slots == 1..MaxTokens
Queues == {"A", "B"}
Values == {1, 2}

BSeq == UNION {[1..k -> Values] : k \in 0..MaxPush}

VARIABLES
    store,      \* store[q]: the std::deque base object of queue q
    m_mutex,    \* m_mutex[q]: the state of q's std::shared_mutex
    tokens,     \* tokens[t][s]: the lock objects thread t has in scope
    blocked,    \* blocked[t]: the acquire_*_lock call thread t is inside of
    last,       \* the member function call made by the latest step
    NDEBUG,     \* whether the translation unit is compiled with -DNDEBUG
    pushed,     \* history: pushed[q] is every value push_back appended to q
    popped,     \* history: popped[q] is every value pop returned from q
    pc          \* position of each thread in the README's consumer loop

vars == <<store, m_mutex, tokens, blocked, last, NDEBUG, pushed, popped, pc>>

\* ------------------------------------------------- std::deque (SuperQueue)
dq_front(d) == Head(d)
dq_back(d) == d[Len(d)]
\* mutant: the value is inserted at the head (push_front)
push_front(d, v) == <<v>> \o d
push_back(d, v) == Append(d, v)
\* mutant: the element is removed at the tail (pop_back)
pop_back(d) == SubSeq(d, 1, Len(d) - 1)
pop_front(d) == Tail(d)
dq_empty(d) == Len(d) = 0
dq_size(d) == Len(d)
\* cbegin()..cend(): the elements in iteration order
dq_range(d) == d

\* --------------------------------------- std::shared_mutex (RWMutex)
FreeMutex == [shared |-> 0, exclusive |-> FALSE]
\* lock_shared() returns only when no thread has exclusive ownership
can_lock_shared(m) == ~m.exclusive
\* lock() returns only when no thread has any ownership
can_lock(m) == ~m.exclusive /\ m.shared = 0
lock_shared(m) == [m EXCEPT !.shared = m.shared + 1]
lock_exclusive(m) == [m EXCEPT !.exclusive = TRUE]
unlock_shared(m) == [m EXCEPT !.shared = m.shared - 1]
unlock_exclusive(m) == [m EXCEPT !.exclusive = FALSE]

\* ------------------------- std::shared_lock / std::unique_lock objects
\* kind "none": no lock object in this slot.  mutex "null": mutex() == nullptr.
NoToken == [kind |-> "none", mutex |-> "null", owns |-> FALSE]
\* ReadLock(m_mutex) / WriteLock(m_mutex) after the constructor returned
NewToken(kind, q) == [kind |-> kind, mutex |-> q, owns |-> TRUE]
\* the object a lock was moved out of: mutex() == nullptr, owns_lock() == false
MovedFrom(tok) == [kind |-> tok.kind, mutex |-> "null", owns |-> FALSE]
\* what the lock's unlock() does to its mutex
Release(m, tok) == IF tok.kind = "read" THEN unlock_shared(m) ELSE unlock_exclusive(m)

FreeSlots(t) == {s \in Slots : tokens[t][s].kind = "none"}
FirstFree(t) == CHOOSE s \in FreeSlots(t) : \A r \in FreeSlots(t) : s <= r

\* the ownership thread t has of q's mutex through its lock objects
Held(t, q) ==
    IF \E s \in Slots : tokens[t][s] = NewToken("write", q) THEN "exclusive"
    ELSE IF \E s \in Slots : tokens[t][s] = NewToken("read", q) THEN "shared"
    ELSE "none"

\* ------------------------------------------------------- ThreadSafeQueue
is_valid_lock(q, lock) == lock.mutex = q

\* ASSERT(c) aborts when c is false, and is empty under NDEBUG
ASSERT_aborts(c) == ~NDEBUG /\ ~c

NoCall == [op |-> "none", queue |-> "A", lock |-> NoToken, held |-> "none",
           size |-> 0, outcome |-> "none", ret |-> <<>>, ub |-> "none", checks |-> 0]

\* abort() and a crash end the process; after undefined behaviour nothing
\* further is defined
Running == last.outcome \notin {"abort", "crash"} /\ last.ub = "none"

NotBlocked == [kind |-> "none", queue |-> "A"]

Ready(t) == Running /\ blocked[t] = NotBlocked

\* ThreadSafeQueue<T> queue;  (default construction: empty deque, free mutex)
Init ==
    /\ store = [q \in Queues |-> <<>>]
    /\ m_mutex = [q \in Queues |-> FreeMutex]
    /\ tokens = [t \in Threads |-> [s \in Slots |-> NoToken]]
    /\ blocked = [t \in Threads |-> NotBlocked]
    /\ last = NoCall
    /\ NDEBUG \in BOOLEAN
    /\ pushed = [q \in Queues |-> <<>>]
    /\ popped = [q \in Queues |-> <<>>]
    /\ pc = [t \in Threads |-> "free"]

\* --------------------------------------------------- lock object steps
\* a step of a lock object is no call of a queue member function
LockStep == last' = NoCall /\ UNCHANGED <<store, NDEBUG, pushed, popped>>

\* thread t enters queue.acquire_read_lock(): ReadLock(m_mutex) starts waiting
acquire_read_lock_call(t, q) ==
    /\ Ready(t) /\ FreeSlots(t) # {}
    /\ blocked' = [blocked EXCEPT ![t] = [kind |-> "read", queue |-> q]]
    /\ UNCHANGED <<m_mutex, tokens>>
    /\ LockStep

\* mutant: acquire_read_lock waits like an exclusive lock (ReadLock declared as
\* std::unique_lock): it also waits for the shared owners to leave
acquire_read_lock_exclusive(t) ==
    LET q == blocked[t].queue IN
    /\ Running /\ blocked[t].kind = "read"
    /\ can_lock(m_mutex[q])
    /\ m_mutex' = [m_mutex EXCEPT ![q] = lock_shared(m_mutex[q])]
    /\ tokens' = [tokens EXCEPT ![t][FirstFree(t)] = NewToken("read", q)]
    /\ blocked' = [blocked EXCEPT ![t] = NotBlocked]
    /\ LockStep

\* mutant: writers first, lock_shared() also waits while a thread is waiting
\* in lock()
acquire_read_lock_writer_first(t) ==
    LET q == blocked[t].queue IN
    /\ Running /\ blocked[t].kind = "read"
    /\ can_lock_shared(m_mutex[q])
    /\ \A w \in Threads : blocked[w] # [kind |-> "write", queue |-> q]
    /\ m_mutex' = [m_mutex EXCEPT ![q] = lock_shared(m_mutex[q])]
    /\ tokens' = [tokens EXCEPT ![t][FirstFree(t)] = NewToken("read", q)]
    /\ blocked' = [blocked EXCEPT ![t] = NotBlocked]
    /\ LockStep

\* ReadLock(m_mutex) obtains shared ownership and acquire_read_lock returns it
acquire_read_lock(t) ==
    LET q == blocked[t].queue IN
    /\ Running /\ blocked[t].kind = "read"
    /\ can_lock_shared(m_mutex[q])
    /\ m_mutex' = [m_mutex EXCEPT ![q] = lock_shared(m_mutex[q])]
    /\ tokens' = [tokens EXCEPT ![t][FirstFree(t)] = NewToken("read", q)]
    /\ blocked' = [blocked EXCEPT ![t] = NotBlocked]
    /\ LockStep

\* thread t enters queue.acquire_write_lock(): WriteLock(m_mutex) starts waiting
acquire_write_lock_call(t, q) ==
    /\ Ready(t) /\ FreeSlots(t) # {}
    /\ blocked' = [blocked EXCEPT ![t] = [kind |-> "write", queue |-> q]]
    /\ UNCHANGED <<m_mutex, tokens>>
    /\ LockStep

\* mutant: acquire_write_lock does not wait for the shared owners to leave
\* (WriteLock declared as std::shared_lock)
acquire_write_lock_shared(t) ==
    LET q == blocked[t].queue IN
    /\ Running /\ blocked[t].kind = "write"
    /\ can_lock_shared(m_mutex[q])
    /\ m_mutex' = [m_mutex EXCEPT ![q] = lock_exclusive(m_mutex[q])]
    /\ tokens' = [tokens EXCEPT ![t][FirstFree(t)] = NewToken("write", q)]
    /\ blocked' = [blocked EXCEPT ![t] = NotBlocked]
    /\ LockStep

\* mutant: the mutex is recursive, a thread does not wait for its own locks
acquire_write_lock_recursive(t) ==
    LET q == blocked[t].queue IN
    /\ Running /\ blocked[t].kind = "write"
    /\ \A u \in Threads \ {t}, s \in Slots :
          ~(tokens[u][s].owns /\ tokens[u][s].mutex = q)
    /\ m_mutex' = [m_mutex EXCEPT ![q] = lock_exclusive(m_mutex[q])]
    /\ tokens' = [tokens EXCEPT ![t][FirstFree(t)] = NewToken("write", q)]
    /\ blocked' = [blocked EXCEPT ![t] = NotBlocked]
    /\ LockStep

\* WriteLock(m_mutex) obtains exclusive ownership and acquire_write_lock returns it
acquire_write_lock(t) ==
    LET q == blocked[t].queue IN
    /\ Running /\ blocked[t].kind = "write"
    /\ can_lock(m_mutex[q])
    /\ m_mutex' = [m_mutex EXCEPT ![q] = lock_exclusive(m_mutex[q])]
    /\ tokens' = [tokens EXCEPT ![t][FirstFree(t)] = NewToken("write", q)]
    /\ blocked' = [blocked EXCEPT ![t] = NotBlocked]
    /\ LockStep

\* the lock object in slot s goes out of scope: ~shared_lock() / ~unique_lock()
\* unlocks the mutex if the object owns it
destroy_lock(t, s) ==
    LET tok == tokens[t][s] IN
    /\ Ready(t) /\ tok.kind # "none"
    /\ m_mutex' = IF tok.owns
                  THEN [m_mutex EXCEPT ![tok.mutex] = Release(m_mutex[tok.mutex], tok)]
                  ELSE m_mutex
    /\ tokens' = [tokens EXCEPT ![t][s] = NoToken]
    /\ UNCHANGED blocked
    /\ LockStep

\* lock.unlock() on an owning lock object: the mutex is released, the object
\* stays in scope and keeps its mutex() pointer
unlock_lock(t, s) ==
    LET tok == tokens[t][s] IN
    /\ Ready(t) /\ tok.kind # "none" /\ tok.owns
    /\ m_mutex' = [m_mutex EXCEPT ![tok.mutex] = Release(m_mutex[tok.mutex], tok)]
    /\ tokens' = [tokens EXCEPT ![t][s].owns = FALSE]
    /\ UNCHANGED blocked
    /\ LockStep

\* consume(std::move(lock)), e.g. passing the lock by value: the object that
\* receives mutex() and the ownership is destroyed at the end of the call, the
\* lock object itself stays in scope with mutex() == nullptr
move_lock(t, s) ==
    LET tok == tokens[t][s] IN
    /\ Ready(t) /\ tok.kind # "none" /\ tok.mutex # "null"
    /\ m_mutex' = IF tok.owns
                  THEN [m_mutex EXCEPT ![tok.mutex] = Release(m_mutex[tok.mutex], tok)]
                  ELSE m_mutex
    /\ tokens' = [tokens EXCEPT ![t][s] = MovedFrom(tok)]
    /\ UNCHANGED blocked
    /\ LockStep

\* mutant: the rule is not followed, a thread asks for locks at any time
AnyLockInScope(t) == t \in Threads

\* the README's rule: a thread asks for a lock only when it has none in scope
NoLockInScope(t) == \A s \in Slots : tokens[t][s].kind = "none"

\* ------------------------------------------- queue member function calls
\* the lock types each member function has an overload for
Overloads(op) ==
    CASE op \in {"front", "back", "empty", "size"} -> {"read", "write"}
      [] op \in {"push", "pop"} -> {"write"}
      [] op \in {"IterableView", "acquire_iterable_view"} -> {"read"}
      [] op \in {"IterableWriteView", "acquire_iterable_write_view"} -> {"write"}

\* how far a call with the lock object in slot s gets before the body:
\* the call does not compile, ASSERT(is_valid_lock(lock)) aborts, or it enters
Prelude(t, s, q, op) ==
    IF tokens[t][s].kind \notin Overloads(op) THEN "no_overload"
    ELSE IF ASSERT_aborts(is_valid_lock(q, tokens[t][s])) THEN "abort"
    ELSE "enter"

\* how often a call that ended with this outcome evaluated is_valid_lock(lock):
\* never when ASSERT expands to nothing or the call does not compile, twice in
\* acquire_iterable_write_view once its own ASSERT passed (the constructor of
\* the view has the second one), once otherwise
Validations(op, outcome) ==
    IF NDEBUG \/ outcome \in {"no_overload", "ill_formed"} THEN 0
    ELSE IF op = "acquire_iterable_write_view" /\ outcome # "abort" THEN 2
    ELSE 1

Report(t, s, q, op, outcome, ret, ub) ==
    last' = [op |-> op, queue |-> q, lock |-> tokens[t][s], held |-> Held(t, q),
             size |-> Len(store[q]), outcome |-> outcome, ret |-> ret, ub |-> ub,
             checks |-> Validations(op, outcome)]

\* front()/back() of an empty deque is undefined behaviour: any value of the
\* return type, or a crash
UndefinedRead(t, s, q, op, type, ub) ==
    \/ \E r \in type : Report(t, s, q, op, "returned", r, ub)
    \/ Report(t, s, q, op, "crash", <<>>, ub)

\* pop_front() of an empty deque is undefined behaviour: any contents and
\* return value, or a crash
UndefinedWrite(t, s, q, op, type, ub) ==
    /\ UNCHANGED <<pushed, popped>>
    /\ \/ \E d \in BSeq, r \in type :
            /\ store' = [store EXCEPT ![q] = d]
            /\ Report(t, s, q, op, "returned", r, ub)
       \/ UNCHANGED store /\ Report(t, s, q, op, "crash", <<>>, ub)

\* a const member function: nothing but the result of the call changes
Const == UNCHANGED <<store, m_mutex, tokens, blocked, NDEBUG, pushed, popped>>

Presents(t, s) == Ready(t) /\ tokens[t][s].kind # "none"

\* mutant: front takes the lock itself (ReadLock guard(m_mutex)) before reading
front_locking(t, s, q) ==
    /\ Presents(t, s) /\ Const
    /\ can_lock_shared(m_mutex[q])
    /\ IF Prelude(t, s, q, "front") # "enter"
       THEN Report(t, s, q, "front", Prelude(t, s, q, "front"), <<>>, "none")
       ELSE IF dq_empty(store[q])
       THEN UndefinedRead(t, s, q, "front", {<<v>> : v \in Values}, "empty")
       ELSE Report(t, s, q, "front", "returned", <<dq_front(store[q])>>, "none")

front(t, s, q) ==
    /\ Presents(t, s) /\ Const
    /\ IF Prelude(t, s, q, "front") # "enter"
       THEN Report(t, s, q, "front", Prelude(t, s, q, "front"), <<>>, "none")
       ELSE IF dq_empty(store[q])
       THEN UndefinedRead(t, s, q, "front", {<<v>> : v \in Values}, "empty")
       ELSE Report(t, s, q, "front", "returned", <<dq_front(store[q])>>, "none")

back(t, s, q) ==
    /\ Presents(t, s) /\ Const
    /\ IF Prelude(t, s, q, "back") # "enter"
       THEN Report(t, s, q, "back", Prelude(t, s, q, "back"), <<>>, "none")
       ELSE IF dq_empty(store[q])
       THEN UndefinedRead(t, s, q, "back", {<<v>> : v \in Values}, "empty")
       ELSE Report(t, s, q, "back", "returned", <<dq_back(store[q])>>, "none")

empty(t, s, q) ==
    /\ Presents(t, s) /\ Const
    /\ IF Prelude(t, s, q, "empty") # "enter"
       THEN Report(t, s, q, "empty", Prelude(t, s, q, "empty"), <<>>, "none")
       ELSE Report(t, s, q, "empty", "returned", <<dq_empty(store[q])>>, "none")

size(t, s, q) ==
    /\ Presents(t, s) /\ Const
    /\ IF Prelude(t, s, q, "size") # "enter"
       THEN Report(t, s, q, "size", Prelude(t, s, q, "size"), <<>>, "none")
       ELSE Report(t, s, q, "size", "returned", <<dq_size(store[q])>>, "none")

push(t, s, q, v) ==
    /\ Presents(t, s)
    /\ UNCHANGED <<m_mutex, tokens, blocked, NDEBUG>>
    /\ IF Prelude(t, s, q, "push") # "enter"
       THEN /\ Report(t, s, q, "push", Prelude(t, s, q, "push"), <<>>, "none")
            /\ UNCHANGED <<store, pushed, popped>>
       ELSE /\ Len(pushed["A"]) + Len(pushed["B"]) < MaxPush
            /\ store' = [store EXCEPT ![q] = push_back(store[q], v)]
            /\ pushed' = [pushed EXCEPT ![q] = Append(pushed[q], v)]
            /\ Report(t, s, q, "push", "returned", <<>>, "none")
            /\ UNCHANGED popped

pop(t, s, q) ==
    /\ Presents(t, s)
    /\ UNCHANGED <<m_mutex, tokens, blocked, NDEBUG>>
    /\ IF Prelude(t, s, q, "pop") # "enter"
       THEN /\ Report(t, s, q, "pop", Prelude(t, s, q, "pop"), <<>>, "none")
            /\ UNCHANGED <<store, pushed, popped>>
       ELSE IF dq_empty(store[q])
       THEN UndefinedWrite(t, s, q, "pop", {<<v>> : v \in Values}, "empty")
       ELSE /\ store' = [store EXCEPT ![q] = pop_front(store[q])]
            /\ popped' = [popped EXCEPT ![q] = Append(popped[q], dq_front(store[q]))]
            /\ Report(t, s, q, "pop", "returned", <<dq_front(store[q])>>, "none")
            /\ UNCHANGED pushed

\* IterableView view(queue, lock); for (const T& x : view) ...
\* the result is the sequence of elements the loop visits
IterableView(t, s, q) ==
    /\ Presents(t, s) /\ Const
    /\ IF Prelude(t, s, q, "IterableView") # "enter"
       THEN Report(t, s, q, "IterableView", Prelude(t, s, q, "IterableView"), <<>>, "none")
       ELSE Report(t, s, q, "IterableView", "returned", dq_range(store[q]), "none")

\* IterableWriteView view(queue, lock); for (T& x : view) ... reading x
IterableWriteView(t, s, q) ==
    /\ Presents(t, s) /\ Const
    /\ IF Prelude(t, s, q, "IterableWriteView") # "enter"
       THEN Report(t, s, q, "IterableWriteView",
                   Prelude(t, s, q, "IterableWriteView"), <<>>, "none")
       ELSE Report(t, s, q, "IterableWriteView", "returned", dq_range(store[q]), "none")

\* acquire_iterable_view is const and passes *this to a constructor that takes
\* ThreadSafeQueue&: the body does not compile once the function is used
acquire_iterable_view(t, s, q) ==
    /\ Presents(t, s) /\ Const
    /\ IF tokens[t][s].kind \notin Overloads("acquire_iterable_view")
       THEN Report(t, s, q, "acquire_iterable_view", "no_overload", <<>>, "none")
       ELSE Report(t, s, q, "acquire_iterable_view", "ill_formed", <<>>, "none")

\* ASSERT(is_valid_lock(lock)), then the constructor of IterableWriteView
acquire_iterable_write_view(t, s, q) ==
    /\ Presents(t, s) /\ Const
    /\ IF Prelude(t, s, q, "acquire_iterable_write_view") # "enter"
       THEN Report(t, s, q, "acquire_iterable_write_view",
                   Prelude(t, s, q, "acquire_iterable_write_view"), <<>>, "none")
       ELSE IF Prelude(t, s, q, "IterableWriteView") # "enter"
       THEN Report(t, s, q, "acquire_iterable_write_view",
                   Prelude(t, s, q, "IterableWriteView"), <<>>, "none")
       ELSE Report(t, s, q, "acquire_iterable_write_view", "returned",
                   dq_range(store[q]), "none")

\* ------------------------------------------------------ arbitrary callers
\* Spec: the threads in Callers make any call in any order, except that a thread
\* asks for a lock only when it has none in scope.  Queue member functions are
\* called on queue A; B is a second instance whose locks are the foreign locks
\* a caller can present to A.
Callers == {1, 2}

Next ==
    \/ \E t \in Callers, q \in Queues :
          NoLockInScope(t) /\ acquire_read_lock_call(t, q) /\ UNCHANGED pc
    \/ \E t \in Callers : acquire_read_lock(t) /\ UNCHANGED pc
    \/ \E t \in Callers, q \in Queues :
          NoLockInScope(t) /\ acquire_write_lock_call(t, q) /\ UNCHANGED pc
    \/ \E t \in Callers : acquire_write_lock(t) /\ UNCHANGED pc
    \/ \E t \in Callers, s \in Slots : destroy_lock(t, s) /\ UNCHANGED pc
    \/ \E t \in Callers, s \in Slots : unlock_lock(t, s) /\ UNCHANGED pc
    \/ \E t \in Callers, s \in Slots : move_lock(t, s) /\ UNCHANGED pc
    \/ \E t \in Callers, s \in Slots : front(t, s, "A") /\ UNCHANGED pc
    \/ \E t \in Callers, s \in Slots : back(t, s, "A") /\ UNCHANGED pc
    \/ \E t \in Callers, s \in Slots : empty(t, s, "A") /\ UNCHANGED pc
    \/ \E t \in Callers, s \in Slots : size(t, s, "A") /\ UNCHANGED pc
    \/ \E t \in Callers, s \in Slots, v \in Values : push(t, s, "A", v) /\ UNCHANGED pc
    \/ \E t \in Callers, s \in Slots : pop(t, s, "A") /\ UNCHANGED pc
    \/ \E t \in Callers, s \in Slots : IterableView(t, s, "A") /\ UNCHANGED pc
    \/ \E t \in Callers, s \in Slots : IterableWriteView(t, s, "A") /\ UNCHANGED pc
    \/ \E t \in Callers, s \in Slots : acquire_iterable_view(t, s, "A") /\ UNCHANGED pc
    \/ \E t \in Callers, s \in Slots :
          acquire_iterable_write_view(t, s, "A") /\ UNCHANGED pc

Spec == Init /\ [][Next]_vars

\* ------------------------------------------- the README's consumer loop
\* SpecLoop: the threads in Consumers run the loop of the README's WriteLock
\* section on queue A, the threads in Producers the write scope of its usage
\* example.  Each thread has one lock variable, slot 1.
Consumers == {1, 2}
Producers == {3}

Goto(t, label) == pc' = [pc EXCEPT ![t] = label]

\* while (...) {
\*     bool empty;
\*     { ReadLock lock = queue.acquire_read_lock(); empty = queue.empty(lock); }
\*     if (!empty) {
\*         WriteLock lock = queue.acquire_write_lock();
\*         my_popped_value = queue.pop(lock);
\*     }
\* }
consumer(t) ==
    \/ pc[t] = "read_scope" /\ acquire_read_lock_call(t, "A") /\ Goto(t, "read_wait")
    \/ pc[t] = "read_wait" /\ acquire_read_lock(t) /\ Goto(t, "read_empty")
    \/ /\ pc[t] = "read_empty" /\ empty(t, 1, "A")
       /\ Goto(t, IF last'.ret = <<TRUE>> THEN "read_end_empty" ELSE "read_end")
    \/ pc[t] = "read_end_empty" /\ destroy_lock(t, 1) /\ Goto(t, "read_scope")
    \/ pc[t] = "read_end" /\ destroy_lock(t, 1) /\ Goto(t, "write_scope")
    \/ pc[t] = "write_scope" /\ acquire_write_lock_call(t, "A") /\ Goto(t, "write_wait")
    \/ pc[t] = "write_wait" /\ acquire_write_lock(t) /\ Goto(t, "write_pop")
    \/ pc[t] = "write_pop" /\ pop(t, 1, "A") /\ Goto(t, "write_end")
    \/ pc[t] = "write_end" /\ destroy_lock(t, 1) /\ Goto(t, "read_scope")

\* { WriteLock lock = queue.acquire_write_lock(); queue.push(v, lock); ... }
producer(t) ==
    \/ pc[t] = "push_scope" /\ acquire_write_lock_call(t, "A") /\ Goto(t, "push_wait")
    \/ pc[t] = "push_wait" /\ acquire_write_lock(t) /\ Goto(t, "push_push")
    \/ pc[t] = "push_push" /\ (\E v \in Values : push(t, 1, "A", v)) /\ UNCHANGED pc
    \/ pc[t] = "push_push" /\ destroy_lock(t, 1) /\ Goto(t, "push_scope")

InitLoop ==
    /\ store = [q \in Queues |-> <<>>]
    /\ m_mutex = [q \in Queues |-> FreeMutex]
    /\ tokens = [t \in Threads |-> [s \in Slots |-> NoToken]]
    /\ blocked = [t \in Threads |-> NotBlocked]
    /\ last = NoCall
    /\ NDEBUG \in BOOLEAN
    /\ pushed = [q \in Queues |-> <<>>]
    /\ popped = [q \in Queues |-> <<>>]
    /\ pc = [t \in Threads |-> IF t \in Producers THEN "push_scope" ELSE "read_scope"]

NextLoop ==
    \/ \E t \in Consumers : consumer(t)
    \/ \E t \in Producers : producer(t)

SpecLoop == InitLoop /\ [][NextLoop]_vars

\* ------------------------------------------------------- nested locks
\* A thread that constructs a second lock on a mutex it already owns: the
\* behaviour of std::shared_mutex::lock() / lock_shared() is undefined then.
\* What builds do: wait as for any other owner (acquire_write_lock and
\* acquire_read_lock above, whose wait conditions count the thread's own
\* ownership), or, where the thread is the registered exclusive owner, detect it
\* and throw std::system_error(resource_deadlock_would_occur) (libstdc++ on
\* glibc: pthread_rwlock_wrlock / rdlock return EDEADLK).
Threw(q) == [NoCall EXCEPT !.queue = q, !.outcome = "system_error"]

\* WriteLock(m_mutex) throws: the thread already has exclusive ownership
acquire_write_lock_throws(t) ==
    LET q == blocked[t].queue IN
    /\ Running /\ blocked[t].kind = "write"
    /\ Held(t, q) = "exclusive"
    /\ blocked' = [blocked EXCEPT ![t] = NotBlocked]
    /\ last' = Threw(q)
    /\ UNCHANGED <<store, m_mutex, tokens, NDEBUG, pushed, popped>>

\* ReadLock(m_mutex) throws: the thread already has exclusive ownership
acquire_read_lock_throws(t) ==
    LET q == blocked[t].queue IN
    /\ Running /\ blocked[t].kind = "read"
    /\ Held(t, q) = "exclusive"
    /\ blocked' = [blocked EXCEPT ![t] = NotBlocked]
    /\ last' = Threw(q)
    /\ UNCHANGED <<store, m_mutex, tokens, NDEBUG, pushed, popped>>

\* SpecNested: every thread asks for locks and lets them go out of scope in any
\* order, also while it has a lock in scope.
NextNested ==
    \/ \E t \in Threads, q \in Queues : acquire_read_lock_call(t, q) /\ UNCHANGED pc
    \/ \E t \in Threads : acquire_read_lock(t) /\ UNCHANGED pc
    \/ \E t \in Threads : acquire_read_lock_throws(t) /\ UNCHANGED pc
    \/ \E t \in Threads, q \in Queues : acquire_write_lock_call(t, q) /\ UNCHANGED pc
    \/ \E t \in Threads : acquire_write_lock(t) /\ UNCHANGED pc
    \/ \E t \in Threads : acquire_write_lock_throws(t) /\ UNCHANGED pc
    \/ \E t \in Threads, s \in Slots : destroy_lock(t, s) /\ UNCHANGED pc

SpecNested == Init /\ [][NextNested]_vars

\* -------------------------------------------------------- usage rules
\* SpecRules: every thread follows the README's rules: it asks for a lock only
\* when it has none in scope, and gives a lock up by letting it go out of scope.
NextRules ==
    \/ \E t \in Threads, q \in Queues :
          NoLockInScope(t) /\ acquire_read_lock_call(t, q) /\ UNCHANGED pc
    \/ \E t \in Threads : acquire_read_lock(t) /\ UNCHANGED pc
    \/ \E t \in Threads, q \in Queues :
          NoLockInScope(t) /\ acquire_write_lock_call(t, q) /\ UNCHANGED pc
    \/ \E t \in Threads : acquire_write_lock(t) /\ UNCHANGED pc
    \/ \E t \in Threads, s \in Slots : destroy_lock(t, s) /\ UNCHANGED pc

\* every scope ends after finitely many steps, and a thread whose lock()
\* or lock_shared() could return at every moment from some point on does return
Fairness ==
    \A t \in Threads :
        /\ WF_vars(acquire_read_lock(t) /\ UNCHANGED pc)
        /\ WF_vars(acquire_write_lock(t) /\ UNCHANGED pc)
        /\ \A s \in Slots : WF_vars(destroy_lock(t, s) /\ UNCHANGED pc)

SpecRules == Init /\ [][NextRules]_vars /\ Fairness

\* ================================================================ claims
\* lock objects in scope that own q's mutex, by kind
WriteTokens(q) ==
    {x \in Threads \X Slots : tokens[x[1]][x[2]] = NewToken("write", q)}
ReadTokens(q) ==
    {x \in Threads \X Slots : tokens[x[1]][x[2]] = NewToken("read", q)}
\* lock objects in scope whose mutex() is q's mutex
LiveTokens(q) ==
    {x \in Threads \X Slots :
        tokens[x[1]][x[2]].kind # "none" /\ tokens[x[1]][x[2]].mutex = q}
\* owners registered in q's mutex
Holders(q) == m_mutex[q].shared + (IF m_mutex[q].exclusive THEN 1 ELSE 0)
\* the call of the latest step ran the body of the member function
Entered == last.op # "none" /\ last.outcome \in {"returned", "crash"}
\* the call of the latest step exists in a program that compiles
Compiled == last.op # "none" /\ last.outcome \notin {"no_overload", "ill_formed"}

\* C1: mutual exclusion.  In every reachable state, for each queue, either no
\* Write Token is held, or exactly one Write Token is held and no Read Token.
C1_MutualExclusion ==
    \A q \in Queues :
        \/ WriteTokens(q) = {}
        \/ Cardinality(WriteTokens(q)) = 1 /\ ReadTokens(q) = {}

\* C1 witness: a thread holds the Write Token of A while another thread is
\* waiting inside an acquire call on A.
C1_Witness ==
    \E t \in Threads, u \in Threads :
        /\ t # u
        /\ Held(t, "A") = "exclusive"
        /\ blocked[u].kind # "none" /\ blocked[u].queue = "A"

\* C3: FIFO order.  The values popped from a queue so far, followed by the values
\* still stored, are the values pushed, in the order of the pushes; so once as
\* many pops as pushes were made the pops returned p1..pn in push order.
\* (Stated for runs in which no call had undefined behaviour.)
C3_FIFO ==
    last.ub = "none" =>
        \A q \in Queues :
            /\ popped[q] \o store[q] = pushed[q]
            /\ store[q] = <<>> => popped[q] = pushed[q]

\* C3 witness: two different values were pushed and both were popped again.
C3_Witness ==
    /\ last.op = "pop" /\ last.outcome = "returned" /\ last.ub = "none"
    /\ Len(pushed["A"]) = 2 /\ pushed["A"][1] # pushed["A"][2]
    /\ popped["A"] = pushed["A"]

\* C7: shared-read concurrency.  A thread waiting in acquire_read_lock can return
\* exactly when no Write Token is held on that queue, however many Read Tokens
\* are held; and front() called under a lock returns the head of the queue,
\* whichever thread calls it.
C7_SharedRead ==
    /\ \A t \in Threads :
          (Running /\ blocked[t].kind = "read") =>
              ((ENABLED acquire_read_lock(t)) <=> WriteTokens(blocked[t].queue) = {})
    /\ (last.op = "front" /\ last.outcome = "returned" /\ last.ub = "none") =>
          last.ret = <<Head(store[last.queue])>>

\* C7 witness: two threads hold Read Tokens of A at once and one of them has
\* just called front().
C7_Witness ==
    /\ Cardinality(ReadTokens("A")) >= 2
    /\ last.op = "front" /\ last.outcome = "returned" /\ last.held = "shared"

\* C2: while a thread holds a Read Token of a queue (from the return of
\* acquire_read_lock until that token is released), no step changes the queue's
\* sequence of elements, whatever the other threads do.
\* (Stated for the build in which ASSERT is in effect.)
C2_ReadStable ==
    [][~NDEBUG =>
          \A t \in Threads, q \in Queues :
              (Held(t, q) = "shared" /\ Held(t, q)' = "shared") => store'[q] = store[q]]_vars

\* C4: cross-instance rejection.  A call that presents to a queue a lock whose
\* mutex is another queue's ends in the fail-fast termination, and the queue's
\* storage is neither read nor modified by it.
C4_CrossInstanceRejected ==
    (Compiled /\ last.lock.mutex \in Queues \ {last.queue}) =>
        (last.outcome = "abort" /\ ~Entered)

\* C5: empty-queue signaling.  pop, front or back called with a valid token on a
\* queue of size 0 signals EmptyQueue, returns no value and leaves the queue
\* empty.
C5_EmptyQueueSignal ==
    (/\ last.op \in {"pop", "front", "back"}
     /\ last.lock.kind \in Overloads(last.op)
     /\ last.lock = NewToken(last.lock.kind, last.queue)
     /\ last.size = 0) =>
        (last.outcome = "EmptyQueue" /\ last.ret = <<>> /\ store[last.queue] = <<>>)

\* C6: token validation rejects a lock that was unlocked or moved from, so every
\* call that reaches the storage is made by a thread that holds the queue's
\* lock at that moment.  (Stated for the build in which ASSERT is in effect,
\* the one that has a validation.)
C6_ValidationChecksLease ==
    ~NDEBUG =>
        /\ (Compiled /\ ~last.lock.owns) => last.outcome = "abort"
        /\ Entered => last.held # "none"

\* C8: every member function that takes a Read Token also takes a Write Token,
\* and no mutating member function takes a Read Token.
C8_WriteWhereRead ==
    /\ (/\ last.op # "none" /\ "read" \in Overloads(last.op)
        /\ last.lock.kind = "write") => Compiled
    /\ (/\ last.op \in {"push", "pop", "acquire_iterable_write_view", "IterableWriteView"}
        /\ last.lock.kind = "read") => ~Compiled

\* C9: the hold lasts exactly the token's lifetime.  The owners registered in a
\* queue's mutex are as many as the lock objects of that queue in scope, and
\* only the destruction of a lock object releases its hold.
C9_HoldIsLifetime ==
    \A q \in Queues : Holders(q) = Cardinality(LiveTokens(q))

\* C10: in the README's consumer loop, run by several consumers together with
\* producers, pop is only ever executed on a non-empty queue.
C10_PopOnNonEmpty == (last.op = "pop" /\ Compiled) => last.size > 0

\* thread t is inside acquire_write_lock on a queue of which it holds a token
NestedWrite(t) == blocked[t].kind = "write" /\ Held(t, blocked[t].queue) # "none"
\* ... of which it holds a Read Token
NestedWriteOverRead(t) ==
    blocked[t].kind = "write" /\ Held(t, blocked[t].queue) = "shared"
\* thread u is inside an acquire_write_lock call on the queue t is waiting for
WaitsBehind(u, t) ==
    u # t /\ blocked[u].kind = "write" /\ blocked[u].queue = blocked[t].queue

ValidCall(op, kind, q) ==
    /\ last'.op = op /\ last'.queue = q
    /\ last'.lock = NewToken(kind, q)

\* C12: pop with a valid Write Token on a non-empty queue returns the element
\* front() would have returned, decreases the size by exactly one and leaves the
\* remaining elements in their order: the former second element is the front.
C12_PopRemovesHead ==
    [][\A q \in Queues :
          (ValidCall("pop", "write", q) /\ Len(store[q]) > 0) =>
              /\ last'.outcome = "returned" /\ last'.ub = "none"
              /\ last'.ret = <<store[q][1]>>
              /\ Len(store'[q]) = Len(store[q]) - 1
              /\ \A i \in 1..Len(store'[q]) : store'[q][i] = store[q][i + 1]]_vars

\* C12 witness: pop was called with a valid Write Token on a queue of two
\* different elements and returned.
C12_Witness ==
    /\ last.op = "pop" /\ last.lock = NewToken("write", last.queue)
    /\ last.size = 2 /\ last.outcome = "returned"
    /\ Len(store[last.queue]) = 1 /\ last.ret # <<store[last.queue][1]>>

\* C13: push(v) with a valid Write Token succeeds, appends v at the tail
\* (back() is v afterwards), increases the size by exactly one and leaves every
\* element stored before at its position.
C13_PushAppends ==
    [][\A q \in Queues :
          ValidCall("push", "write", q) =>
              /\ last'.outcome = "returned" /\ last'.ub = "none"
              /\ Len(store'[q]) = Len(store[q]) + 1
              /\ store'[q][Len(store'[q])] \in Values
              /\ pushed'[q] = Append(pushed[q], store'[q][Len(store'[q])])
              /\ \A i \in 1..Len(store[q]) : store'[q][i] = store[q][i]]_vars

\* C13 witness: push was called with a valid Write Token on a non-empty queue
\* and the value pushed differs from the front.
C13_Witness ==
    /\ last.op = "push" /\ last.lock = NewToken("write", last.queue)
    /\ last.size = 1 /\ last.outcome = "returned"
    /\ Len(store[last.queue]) = 2
    /\ store[last.queue][1] # store[last.queue][2]

\* C14: every change of a queue's contents is made by a thread that holds the
\* Write Token of that queue at that moment; front, back, empty, size and
\* IterableView traversal called with a Read Token change neither the contents
\* nor the lock state.  (Stated for the build in which ASSERT is in effect.)
C14_Frame ==
    [][~NDEBUG =>
          /\ \A q \in Queues :
                store'[q] # store[q] => (last'.queue = q /\ last'.held = "exclusive")
          /\ (/\ last'.op \in {"front", "back", "empty", "size", "IterableView"}
              /\ last'.lock.kind = "read") =>
                UNCHANGED <<store, m_mutex, tokens, blocked>>]_vars

ViewOps == {"IterableView", "IterableWriteView",
            "acquire_iterable_view", "acquire_iterable_write_view"}

\* C15: a view obtained with a valid token validated the token exactly once, at
\* construction, and its traversal yields exactly the queue's elements, each
\* once, from front to back, for IterableView and IterableWriteView alike.
C15_ViewTraversal ==
    (/\ last.op \in ViewOps
     /\ last.lock.kind \in Overloads(last.op)
     /\ last.lock = NewToken(last.lock.kind, last.queue)
     /\ last.outcome = "returned") =>
        /\ last.checks = 1
        /\ Len(last.ret) = Len(store[last.queue])
        /\ \A i \in 1..Len(last.ret) : last.ret[i] = store[last.queue][i]

\* the call made by the step ran to its end
Completes == last'.outcome \in {"returned", "crash"}

\* C16: only acquire_read_lock and acquire_write_lock can wait.  In every state,
\* a thread that is not inside an acquire call and has a lock object owning A's
\* mutex can make each call that lock type allows (front, back, empty, size,
\* push, pop, construction of a view), and the call runs to its end, whatever
\* the other threads hold or wait for.
C16_NonBlocking ==
    \A t \in Threads, s \in Slots :
        (Ready(t) /\ tokens[t][s].owns /\ tokens[t][s].mutex = "A") =>
            /\ ENABLED (front(t, s, "A") /\ Completes)
            /\ ENABLED (back(t, s, "A") /\ Completes)
            /\ ENABLED (empty(t, s, "A") /\ Completes)
            /\ ENABLED (size(t, s, "A") /\ Completes)
            /\ tokens[t][s].kind = "read" =>
                  ENABLED (IterableView(t, s, "A") /\ Completes)
            /\ tokens[t][s].kind = "write" =>
                  /\ ENABLED (pop(t, s, "A") /\ Completes)
                  /\ ENABLED (IterableWriteView(t, s, "A") /\ Completes)
                  /\ ENABLED (acquire_iterable_write_view(t, s, "A") /\ Completes)
                  /\ Len(pushed["A"]) + Len(pushed["B"]) < MaxPush =>
                        \A v \in Values : ENABLED (push(t, s, "A", v) /\ Completes)

\* C16 witness: a thread holds the Write Token of A and can call the queue while
\* another thread waits inside acquire_read_lock on A and cannot return.
C16_Witness ==
    \E t \in Threads, u \in Threads :
        /\ Ready(t) /\ Held(t, "A") = "exclusive"
        /\ blocked[u] = [kind |-> "read", queue |-> "A"]
        /\ ~ENABLED acquire_read_lock(u)

\* thread w is inside acquire_write_lock on queue q
WriterWaits(w, q) == blocked[w] = [kind |-> "write", queue |-> q]
\* thread r is inside acquire_read_lock on queue q
ReaderWaits(r, q) == blocked[r] = [kind |-> "read", queue |-> q]

\* C17: writer starvation is possible under the usage rules.  Every token is
\* released after finitely many steps; yet while a thread waits in
\* acquire_write_lock, a reader that asks while another thread's Read Token is
\* held is let in at once, and the writer cannot return as long as one Read
\* Token is held.  So readers whose tokens overlap keep the writer waiting
\* without end.
C17_WriterStarvation ==
    /\ \A t \in Threads, q \in Queues :
          (Held(t, q) # "none") ~> (Held(t, q) = "none")
    /\ [](\A w \in Threads, q \in Queues :
             (WriterWaits(w, q) /\ ReadTokens(q) # {}) =>
                 /\ ~ENABLED acquire_write_lock(w)
                 /\ \A r \in Threads : ReaderWaits(r, q) => ENABLED acquire_read_lock(r)
                 /\ \A r \in Threads :
                       (Ready(r) /\ NoLockInScope(r)) =>
                           ENABLED acquire_read_lock_call(r, q))

\* C17 witness: a thread waits in acquire_write_lock on A while two other
\* threads hold Read Tokens of A at the same time.
C17_Witness ==
    \E w \in Threads :
        /\ WriterWaits(w, "A")
        /\ Cardinality({x \in ReadTokens("A") : x[1] # w}) = 2

\* the acquire call thread t is inside of can return in this state
CanReturn(t) == (ENABLED acquire_read_lock(t)) \/ (ENABLED acquire_write_lock(t))
\* thread t is inside an acquire call that cannot return in this state
Stuck(t) == blocked[t].kind # "none" /\ ~CanReturn(t)

\* C18: deadlock freedom under the usage rules.  In no reachable state are all
\* threads blocked; whenever a thread is blocked in acquire_read_lock or
\* acquire_write_lock, another thread holds a token of that queue and can
\* release it; and when no token of the queue is held, a waiting acquisition
\* can return.
C18_DeadlockFree ==
    /\ \E t \in Threads : ~Stuck(t)
    /\ \A t \in Threads :
          Stuck(t) =>
              \E u \in Threads \ {t}, s \in Slots :
                  /\ tokens[u][s].owns /\ tokens[u][s].mutex = blocked[t].queue
                  /\ ENABLED destroy_lock(u, s)
    /\ \A t \in Threads :
          (blocked[t].kind # "none" /\ Holders(blocked[t].queue) = 0) => CanReturn(t)

\* C18 witness: two threads are blocked on A, one asking for a Read Token and
\* one for a Write Token, behind the third, which holds the Write Token of A.
C18_Witness ==
    \E t \in Threads, u \in Threads, h \in Threads :
        /\ Stuck(t) /\ ReaderWaits(t, "A")
        /\ Stuck(u) /\ WriterWaits(u, "A")
        /\ Held(h, "A") = "exclusive"

====
